---- MODULE Spec2Model ----
(***************************************************************************)
(* timeseries-tools: the three persistence forecasters of                  *)
(* models/persistence.py (LatestValuePersistence, SlidingWindowPersistence,*)
(* LaggedValuePersistence) and the walk-forward splitter of                *)
(* validation/splitters.py (cross_val_split).                              *)
(*                                                                         *)
(* Timestamps and durations are integers (days).  A cell value is a        *)
(* rational [n, d]; the missing value NaN is the record with d = 0.        *)
(* A frame is a sequence of rows.  A training row carries ds and y; a      *)
(* query row carries its index label idx, ds and one further column x.     *)
(* Index labels of a frame are distinct.  The window of                    *)
(* SlidingWindowPersistence is an integer count of observations (the       *)
(* default, window=7, is one); offset-string windows are not modelled.     *)
(* The frame given to cross_val_split is the set of its rows' timestamps:  *)
(* the function sorts it, reads its first and last timestamp and filters   *)
(* it by timestamp, so rows of equal timestamp always share a view.        *)
(***************************************************************************)
EXTENDS Integers, Sequences, FiniteSets, TLC

VARIABLES
    \* ---- one model instance (models/persistence.py) ----
    kind,        \* which class the instance is: "latest", "window", "lagged"
    param,       \* self.window (kind "window") or self.lag (kind "lagged")
    trained,     \* self.trained
    fitted,      \* self.training_data / self.sliding_window / self.lagged_df
    result,      \* the last call on the instance and what it returned or raised
    completed,   \* history: some fit call has returned normally
    \* ---- one generator of cross_val_split (validation/splitters.py) ----
    df,          \* the distinct timestamps of the rows of the input frame
    cfg,         \* minimum_training_period, maximum_training_period, test_window
    pc,          \* the generator: created, loop, done, invalid, crash (idle: none)
    train_start,
    train_end,
    test_end,
    emitted,     \* the pairs yielded so far, in order
    first,       \* the loop is in (or before) its first iteration
    tick         \* parity of the number of loop iterations executed

mvars == <<kind, param, trained, fitted, result, completed>>
svars == <<df, cfg, pc, train_start, train_end, test_end, emitted, first, tick>>
vars == <<kind, param, trained, fitted, result, completed,
          df, cfg, pc, train_start, train_end, test_end, emitted, first, tick>>

---------------------------------------------------------------------------
(* Bounds of the model *)
MaxT == 2          \* timestamps of training and query rows are 0..MaxT
MaxY == 2          \* present training values are 1..MaxY
MaxTrain == 2      \* rows of a training frame
MaxQuery == 2      \* rows of a query frame
MaxWindow == 2     \* self.window is 1..MaxWindow
MaxLag == 1        \* self.lag is 0..MaxLag
MaxStamp == 5      \* timestamps of the frame given to cross_val_split are 0..MaxStamp
MaxPeriod == 2     \* the periods and the test window are 0..MaxPeriod, or None

---------------------------------------------------------------------------
(* Values: rationals and NaN *)
NaN == [n |-> 0, d |-> 0]
Num(k) == [n |-> k, d |-> 1]
IsNaN(v) == v.d = 0

RECURSIVE GCD(_, _)
GCD(a, b) == IF b = 0 THEN a ELSE GCD(b, a % b)

Norm(n, d) ==
    LET g == GCD(IF n < 0 THEN -n ELSE n, d)
    IN  IF g = 0 THEN [n |-> 0, d |-> 1] ELSE [n |-> n \div g, d |-> d \div g]

Add(a, b) == Norm(a.n * b.d + b.n * a.d, a.d * b.d)

RECURSIVE SumSeq(_)
SumSeq(s) == IF s = <<>> THEN Num(0) ELSE Add(Head(s), SumSeq(Tail(s)))

\* Series.mean(): NaN cells are skipped; the mean of no values is NaN.
Mean(s) ==
    LET present == SelectSeq(s, LAMBDA v : ~IsNaN(v))
        t == SumSeq(present)
    IN  IF present = <<>> THEN NaN ELSE Norm(t.n, t.d * Len(present))

SetMax(S) == CHOOSE m \in S : \A o \in S : o <= m
SetMin(S) == CHOOSE m \in S : \A o \in S : m <= o

SeqsUpTo(S, n) == UNION {[1..k -> S] : k \in 0..n}

---------------------------------------------------------------------------
(* Frames *)
YVals == {NaN} \cup {Num(k) : k \in 1..MaxY}
XVals == {NaN, Num(0)}

\* A training frame; hasY = FALSE is a frame without the column y.
TrainFrames ==
    {[hasY |-> TRUE, rows |-> r] : r \in SeqsUpTo([ds : 0..MaxT, y : YVals], MaxTrain)}
    \cup
    {[hasY |-> FALSE, rows |-> r] : r \in SeqsUpTo([ds : 0..MaxT, y : {NaN}], MaxTrain)}

QueryFrames ==
    {q \in SeqsUpTo([idx : 1..MaxQuery, ds : 0..MaxT, x : XVals], MaxQuery) :
        \A i, j \in 1..Len(q) : q[i].idx = q[j].idx => i = j}

\* Index.is_monotonic_increasing of the merge key
IsSorted(rows) == \A i \in 1..(Len(rows) - 1) : rows[i].ds <= rows[i + 1].ds

\* The state before any fit: the attribute is None.
NoFit == [set |-> FALSE, hasYhat |-> FALSE, rows |-> <<>>]

---------------------------------------------------------------------------
(* fit *)

\* df.copy()[['ds', 'y']].rename({'y': 'yhat'}): KeyError without column y,
\* raised before self.training_data is assigned.
LatestFit(old, wasTrained, frame) ==
    IF ~frame.hasY
    THEN [status |-> "error", trained |-> wasTrained, fitted |-> old]
    ELSE [status |-> "ok", trained |-> TRUE,
          fitted |-> [set |-> TRUE, hasYhat |-> TRUE,
                      rows |-> [i \in 1..Len(frame.rows) |->
                                  [ds |-> frame.rows[i].ds, yhat |-> frame.rows[i].y]]]]

\* rolling(window=w).mean() with the default min_periods = w: the mean of the
\* last w rows in frame order, NaN while fewer than w rows are available or
\* when one of them is NaN.
RollingMean(rows, w) ==
    [i \in 1..Len(rows) |->
        [ds |-> rows[i].ds,
         yhat |-> IF i < w \/ \E j \in (i - w + 1)..i : IsNaN(rows[j].yhat)
                  THEN NaN
                  ELSE Mean([k \in 1..w |-> rows[i - w + k].yhat])]]

\* Two assignments to self.sliding_window: the indexed, renamed frame first,
\* its rolling mean second.  [['yhat']] raises KeyError when the frame had no
\* column y, after the first assignment and before self.trained = True.
SlidingFitTrainedFlagFirst(old, wasTrained, frame, w) ==
    LET step1 == [i \in 1..Len(frame.rows) |->
                    [ds |-> frame.rows[i].ds, yhat |-> frame.rows[i].y]]
    IN  IF ~frame.hasY
        THEN [status |-> "error", trained |-> TRUE,
              fitted |-> [set |-> TRUE, hasYhat |-> FALSE, rows |-> step1]]
        ELSE [status |-> "ok", trained |-> TRUE,
              fitted |-> [set |-> TRUE, hasYhat |-> TRUE,
                          rows |-> RollingMean(step1, w)]]

SlidingFit(old, wasTrained, frame, w) ==
    LET step1 == [i \in 1..Len(frame.rows) |->
                    [ds |-> frame.rows[i].ds, yhat |-> frame.rows[i].y]]
    IN  IF ~frame.hasY
        THEN [status |-> "error", trained |-> wasTrained,
              fitted |-> [set |-> TRUE, hasYhat |-> FALSE, rows |-> step1]]
        ELSE [status |-> "ok", trained |-> TRUE,
              fitted |-> [set |-> TRUE, hasYhat |-> TRUE,
                          rows |-> RollingMean(step1, w)]]

\* lagged_df['ds'] + self.lag, then the rename; self.lagged_df is assigned once.
LaggedFit(old, wasTrained, frame, lag) ==
    IF ~frame.hasY
    THEN [status |-> "error", trained |-> wasTrained, fitted |-> old]
    ELSE [status |-> "ok", trained |-> TRUE,
          fitted |-> [set |-> TRUE, hasYhat |-> TRUE,
                      rows |-> [i \in 1..Len(frame.rows) |->
                                  [ds |-> frame.rows[i].ds + lag,
                                   yhat |-> frame.rows[i].y]]]]

FitOutcome(k, p, old, wasTrained, frame) ==
    CASE k = "latest" -> LatestFit(old, wasTrained, frame)
      [] k = "window" -> SlidingFit(old, wasTrained, frame, p)
      [] k = "lagged" -> LaggedFit(old, wasTrained, frame, p)

---------------------------------------------------------------------------
(* predict *)

\* The row of `right` that pd.merge_asof(direction='backward') joins to key t:
\* the last row whose ds is <= t, or < t with allow_exact_matches=False.
AsofMatch(right, t, exact) ==
    LET C == {j \in 1..Len(right) :
                 IF exact THEN right[j].ds <= t ELSE right[j].ds < t}
    IN  IF C = {} THEN NaN ELSE right[SetMax(C)].yhat

\* pd.merge_asof(left, right, on='ds'): raises ValueError unless the keys of
\* both frames are sorted; else one output row per left row, in left order.
MergeAsof(left, right, exact) ==
    IF ~IsSorted(left) \/ ~IsSorted(right)
    THEN [ok |-> FALSE, rows |-> <<>>]
    ELSE [ok |-> TRUE,
          rows |-> [i \in 1..Len(left) |->
                      [idx |-> left[i].idx, ds |-> left[i].ds, x |-> left[i].x,
                       yhat |-> AsofMatch(right, left[i].ds, exact)]]]

\* DataFrame.fillna(v): every NaN cell of every column becomes v (a NaN v
\* changes nothing).  idx is the index and ds holds no NaN.
FillNa(rows, v) ==
    [i \in 1..Len(rows) |->
        [idx |-> rows[i].idx, ds |-> rows[i].ds,
         x |-> IF IsNaN(rows[i].x) THEN v ELSE rows[i].x,
         yhat |-> IF IsNaN(rows[i].yhat) THEN v ELSE rows[i].yhat]]

Raised(what, q) == [op |-> "predict", status |-> what, in |-> q, out |-> <<>>]
Returned(q, rows) == [op |-> "predict", status |-> "ok", in |-> q, out |-> rows]

\* training_data.loc[training_data['ds'].idxmax()]['yhat']: the first row
\* holding the largest ds; idxmax raises ValueError on an empty frame.
LatestValue(rows) ==
    LET top == SetMax({rows[j].ds : j \in 1..Len(rows)})
    IN  rows[SetMin({j \in 1..Len(rows) : rows[j].ds = top})].yhat

LatestPredict(isTrained, state, q) ==
    IF ~isTrained THEN Raised("untrained", q)
    ELSE LET m == MergeAsof(q, state.rows, FALSE)
         IN  IF ~m.ok \/ state.rows = <<>> THEN Raised("error", q)
             ELSE Returned(q, FillNa(m.rows, LatestValue(state.rows)))

\* self.sliding_window['yhat'] raises KeyError when a failed fit left the
\* frame without that column.
SlidingPredict(isTrained, state, q) ==
    IF ~isTrained THEN Raised("untrained", q)
    ELSE LET m == MergeAsof(q, state.rows, TRUE)
         IN  IF ~m.ok \/ ~state.hasYhat THEN Raised("error", q)
             ELSE Returned(q, FillNa(m.rows,
                      Mean([j \in 1..Len(state.rows) |-> state.rows[j].yhat])))

\* The orders sort_values(by='ds') can leave the rows in: the default
\* quicksort is not stable, so rows of equal ds come out in either order.
SortOrders(q) ==
    {p \in [1..Len(q) -> 1..Len(q)] :
        /\ \A i, j \in 1..Len(q) : p[i] = p[j] => i = j
        /\ \A i \in 1..(Len(q) - 1) : q[p[i]].ds <= q[p[i + 1]].ds}

\* The query is sorted by ds before the join and returned in that order.
LaggedPredict(isTrained, state, q, p) ==
    IF ~isTrained THEN Raised("untrained", q)
    ELSE LET m == MergeAsof([i \in 1..Len(q) |-> q[p[i]]], state.rows, TRUE)
         IN  IF ~m.ok THEN Raised("error", q)
             ELSE Returned(q, FillNa(m.rows,
                      Mean([j \in 1..Len(state.rows) |-> state.rows[j].yhat])))

PredictOutcome(k, isTrained, state, q, p) ==
    CASE k = "latest" -> LatestPredict(isTrained, state, q)
      [] k = "window" -> SlidingPredict(isTrained, state, q)
      [] k = "lagged" -> LaggedPredict(isTrained, state, q, p)

---------------------------------------------------------------------------
(* The model instance as a state machine *)

Params(k) ==
    CASE k = "latest" -> {0}
      [] k = "window" -> 1..MaxWindow
      [] k = "lagged" -> 0..MaxLag

\* cross_val_split is not running in this specification.
SplitIdle ==
    /\ df = {} /\ cfg = [min |-> {}, max |-> {}, test |-> {}]
    /\ pc = "idle" /\ train_start = 0 /\ train_end = 0 /\ test_end = 0
    /\ emitted = <<>> /\ first = TRUE /\ tick = FALSE

\* __init__
Init ==
    /\ kind \in {"latest", "window", "lagged"}
    /\ param \in Params(kind)
    /\ trained = FALSE
    /\ fitted = NoFit
    /\ result = [op |-> "init", status |-> "ok", in |-> <<>>, out |-> <<>>]
    /\ completed = FALSE
    /\ SplitIdle

Fit(frame) ==
    LET r == FitOutcome(kind, param, fitted, trained, frame)
    IN  /\ trained' = r.trained
        /\ fitted' = r.fitted
        /\ result' = [op |-> "fit", status |-> r.status, in |-> <<>>, out |-> <<>>]
        /\ completed' = (completed \/ r.status = "ok")
        /\ UNCHANGED <<kind, param>>
        /\ UNCHANGED svars

Predict(q) ==
    /\ \E p \in SortOrders(q) :
          result' = PredictOutcome(kind, trained, fitted, q, p)
    /\ UNCHANGED <<kind, param, trained, fitted, completed>>
    /\ UNCHANGED svars

Next ==
    \/ \E frame \in TrainFrames : Fit(frame)
    \/ \E q \in QueryFrames : Predict(q)

Spec == Init /\ [][Next]_vars

---------------------------------------------------------------------------
(* cross_val_split *)

\* An argument that may be None: {} is None, {d} is the duration d.
Opt(S) == {{}} \cup {{d} : d \in S}
Val(o) == CHOOSE d \in o : TRUE

\* The two raise ValueError statements that precede the loop.
ConfigErrorWithoutOrderCheck(c) == c.test = {}

ConfigError(c) ==
    \/ c.test = {}
    \/ /\ c.max # {}
       /\ c.min # {}
       /\ Val(c.max) < Val(c.min)

\* minimum_training_period defaults to test_window after the validation.
MinPeriod(c) == IF c.min = {} THEN Val(c.test) ELSE Val(c.min)

\* _df[(lo <= _df[tsc]) & (_df[tsc] < hi)], once for train and once for test
TrainView(d, lo, hi) == {t \in d : lo <= t /\ t < hi}

TestViewClosed(d, lo, hi) == {t \in d : lo <= t /\ t <= hi}

TestView(d, lo, hi) == {t \in d : lo <= t /\ t < hi}

\* train_start after the walk forward, given the advanced train_end
StaleTrainStart(c, start, newEnd) == start + Val(c.test)

NextTrainStart(c, start, newEnd) ==
    IF c.max # {} THEN newEnd - Val(c.max) ELSE start

\* _df.iloc[-1][tsc] of the sorted frame
max_date == SetMax(df)

ModelIdle ==
    /\ kind = "none" /\ param = 0 /\ trained = FALSE /\ fitted = NoFit
    /\ result = [op |-> "init", status |-> "ok", in |-> <<>>, out |-> <<>>]
    /\ completed = FALSE

\* The generator object exists; none of the function body has run.
SplitInit ==
    /\ df \in SUBSET (0..MaxStamp)
    /\ cfg \in [min : Opt(0..MaxPeriod), max : Opt(0..MaxPeriod), test : Opt(0..MaxPeriod)]
    /\ pc = "created"
    /\ train_start = 0 /\ train_end = 0 /\ test_end = 0
    /\ emitted = <<>> /\ first = TRUE /\ tick = FALSE
    /\ ModelIdle

\* First advance of the generator: validation, then the four assignments
\* before the loop.  _df.iloc[-1] raises IndexError on an empty frame.
Start ==
    /\ pc = "created"
    /\ IF ConfigError(cfg)
       THEN /\ pc' = "invalid"
            /\ UNCHANGED <<train_start, train_end, test_end>>
       ELSE IF df = {}
       THEN /\ pc' = "crash"
            /\ UNCHANGED <<train_start, train_end, test_end>>
       ELSE /\ pc' = "loop"
            /\ train_start' = SetMin(df)
            /\ train_end' = SetMin(df) + MinPeriod(cfg)
            /\ test_end' = SetMin(df) + MinPeriod(cfg) + Val(cfg.test)
    /\ UNCHANGED <<df, cfg, emitted, first, tick>>
    /\ UNCHANGED mvars

\* One iteration of the while loop.
Iterate ==
    /\ pc = "loop"
    /\ test_end < max_date
    /\ LET train == TrainView(df, train_start, train_end)
           test == TestView(df, train_end, test_end)
       IN  emitted' = IF train # {} /\ test # {}
                      THEN Append(emitted,
                               [train |-> train, test |-> test,
                                train_start |-> train_start, train_end |-> train_end,
                                test_end |-> test_end, first |-> first])
                      ELSE emitted
    /\ train_end' = train_end + Val(cfg.test)
    /\ test_end' = test_end + Val(cfg.test)
    /\ train_start' = NextTrainStart(cfg, train_start, train_end + Val(cfg.test))
    /\ first' = FALSE
    /\ tick' = ~tick
    /\ UNCHANGED <<df, cfg, pc>>
    /\ UNCHANGED mvars

\* The loop condition fails: the generator is exhausted.
Finish ==
    /\ pc = "loop"
    /\ ~(test_end < max_date)
    /\ pc' = "done"
    /\ UNCHANGED <<df, cfg, train_start, train_end, test_end, emitted, first, tick>>
    /\ UNCHANGED mvars

SplitNext == Start \/ Iterate \/ Finish

SplitSpec == SplitInit /\ [][SplitNext]_vars

\* The consumer keeps advancing the generator, and the interpreter keeps
\* running the loop.
FairSplitSpec == SplitInit /\ [][SplitNext]_vars /\ WF_vars(SplitNext)

---------------------------------------------------------------------------
(* Properties of the model instance, checked under Spec *)

\* The instance holds the state of a fit on a non-empty frame with column y
\* whose rows are in timestamp order.
WellFormedFit ==
    /\ trained /\ fitted.set /\ fitted.hasYhat
    /\ fitted.rows # <<>> /\ IsSorted(fitted.rows)

\* C1: once the model is fitted, predict returns one row per query row and the
\* index labels of the output are those of the input in the same order,
\* whatever the timestamp order of the query rows.  (Stated here for fits on
\* non-empty, timestamp-ordered training frames only.)
PredictKeepsRowOrder ==
    (result.op = "predict" /\ WellFormedFit) =>
        /\ result.status = "ok"
        /\ Len(result.out) = Len(result.in)
        /\ \A i \in 1..Len(result.in) : result.out[i].idx = result.in[i].idx

\* The training values the rule of LatestValuePersistence allows for query
\* timestamp t: those of the observations with the largest timestamp < t, or,
\* when there is none, of the observations with the largest timestamp.
LatestRuleValues(rows, t) ==
    LET before == {j \in 1..Len(rows) : rows[j].ds < t}
        pool == IF before = {} THEN 1..Len(rows) ELSE before
        top == SetMax({rows[j].ds : j \in pool})
    IN  {rows[j].yhat : j \in {j \in pool : rows[j].ds = top}}

\* C2: LatestValuePersistence fitted on a non-empty training set gives every
\* query timestamp q the value of the training observation with the largest
\* timestamp strictly less than q, and the value of the latest observation
\* when no training timestamp is less than q.  (Stated here for training and
\* query frames in timestamp order only.)
LatestPredictsPreviousValue ==
    (kind = "latest" /\ result.op = "predict" /\ WellFormedFit /\ IsSorted(result.in)) =>
        /\ result.status = "ok"
        /\ Len(result.out) = Len(result.in)
        /\ \A i \in 1..Len(result.in) :
              result.out[i].yhat \in LatestRuleValues(fitted.rows, result.in[i].ds)

\* The rule of C2 where it does hold: timestamp-ordered frames whose training
\* values are all present.
LatestPredictsPreviousPresentValue ==
    (/\ kind = "latest" /\ result.op = "predict" /\ WellFormedFit /\ IsSorted(result.in)
     /\ \A j \in 1..Len(fitted.rows) : ~IsNaN(fitted.rows[j].yhat)) =>
        /\ result.status = "ok"
        /\ Len(result.out) = Len(result.in)
        /\ \A i \in 1..Len(result.in) :
              result.out[i].yhat \in LatestRuleValues(fitted.rows, result.in[i].ds)

\* C6: a predict call made while no fit call has completed fails with the
\* "model must be fit" error and returns no rows, whatever calls came before.
UntrainedPredictFails ==
    (result.op = "predict" /\ ~completed) =>
        (result.status = "untrained" /\ result.out = <<>>)

\* A predict on a non-empty query after a fit attempt that failed halfway.
UntrainedPredictAfterFailedFit ==
    /\ result.op = "predict" /\ ~completed
    /\ fitted.set /\ result.in # <<>>

\* C8: predict leaves every column other than yhat as it was: each output row
\* carries the ds and x cells of the input row with the same index label,
\* missing cells included.
PredictPassesColumnsThrough ==
    (result.op = "predict" /\ result.status = "ok") =>
        \A i \in 1..Len(result.in) : \A j \in 1..Len(result.out) :
            result.out[j].idx = result.in[i].idx =>
                (result.out[j].x = result.in[i].x /\ result.out[j].ds = result.in[i].ds)

\* C9: a fit call that fails leaves the fitted state and the trained flag
\* exactly as they were before the call.
FailedFitLeavesState ==
    [][(result'.op = "fit" /\ result'.status = "error") =>
          (fitted' = fitted /\ trained' = trained)]_vars

---------------------------------------------------------------------------
(* Properties of cross_val_split, checked under SplitSpec and FairSplitSpec *)

\* C3 as stated: train precedes test in every emitted pair, and from one
\* emitted pair to the next the test window advances by exactly test_window.
ConsecutiveTestsAdvanceByWindow ==
    /\ \A k \in 1..Len(emitted) :
          \A a \in emitted[k].train : \A b \in emitted[k].test : a < b
    /\ \A k \in 1..(Len(emitted) - 1) :
          /\ emitted[k + 1].train_end - emitted[k].train_end = Val(cfg.test)
          /\ emitted[k + 1].test_end - emitted[k].test_end = Val(cfg.test)

\* C3, amended: train precedes test in every emitted pair; from one emitted
\* pair to the next the test window advances by a positive whole multiple of
\* test_window and starts no earlier than the previous one ended; no timestamp
\* is in the test view of two pairs.
SplitsOrderedAndDisjoint ==
    /\ \A k \in 1..Len(emitted) :
          \A a \in emitted[k].train : \A b \in emitted[k].test : a < b
    /\ \A k \in 1..(Len(emitted) - 1) :
          LET step == emitted[k + 1].train_end - emitted[k].train_end
          IN  /\ step > 0
              /\ step % Val(cfg.test) = 0
              /\ emitted[k + 1].test_end - emitted[k].test_end = step
              /\ emitted[k].test_end <= emitted[k + 1].train_end
    /\ \A k, l \in 1..Len(emitted) :
          k # l => emitted[k].test \cap emitted[l].test = {}

\* Two pairs emitted around a skipped iteration.
PairsAroundSkippedWindow ==
    /\ Len(emitted) >= 2
    /\ emitted[2].train_end - emitted[1].train_end > Val(cfg.test)

\* C4: with a configuration that passes validation and a non-empty series,
\* the loop reaches test_end >= max_date and the generator is exhausted.
SplitterTerminates ==
    (pc = "created" /\ ~ConfigError(cfg) /\ df # {}) ~> (pc = "done")

\* C5: when test_window is None, or both periods are given and the maximum is
\* less than the minimum, the generator raises before any pair: it emits
\* nothing and its only move is into the configuration error.
ConfigRejectedBeforeAnyPair ==
    (\/ cfg.test = {}
     \/ (cfg.min # {} /\ cfg.max # {} /\ Val(cfg.max) < Val(cfg.min))) =>
        (emitted = <<>> /\ pc \in {"created", "invalid"})

\* The generator has raised on maximum < minimum with a test window given.
RejectedPeriodOrder ==
    /\ pc = "invalid" /\ cfg.test # {}
    /\ cfg.min # {} /\ cfg.max # {} /\ Val(cfg.max) < Val(cfg.min)

\* C7: without maximum_training_period every emitted pair has train_start at
\* the first timestamp of the series; with maximum_training_period = M every
\* pair emitted after the first iteration has train_end - train_start = M.
TrainStartPolicy ==
    \A k \in 1..Len(emitted) :
        IF cfg.max = {}
        THEN emitted[k].train_start = SetMin(df)
        ELSE ~emitted[k].first =>
                emitted[k].train_end - emitted[k].train_start = Val(cfg.max)

\* Pairs were emitted in both the first and a later iteration of a sliding
\* configuration.
SlidingPairAfterFirst ==
    /\ cfg.max # {}
    /\ Len(emitted) >= 2
    /\ emitted[1].first /\ ~emitted[2].first

\* C10: with maximum_training_period = M and a configuration that passes
\* validation, the timestamps of every emitted train view, the first included,
\* lie in [train_end - M, train_end).
TrainWindowCapped ==
    cfg.max # {} =>
        \A k \in 1..Len(emitted) : \A t \in emitted[k].train :
            emitted[k].train_end - Val(cfg.max) <= t /\ t < emitted[k].train_end

====
